---- MODULE Spec2Model ----
(***************************************************************************)
(* State-machine model of js/app.js (DevOps Learning Platform): the        *)
(* Pomodoro ("Deep Work") timer of initTimer, the quick task manager of    *)
(* initTaskManager, the roadmap and its XP and level, the clock and        *)
(* greeting, and the localStorage persistence they share.                  *)
(*                                                                         *)
(* Text (DOM textContent, input values, the stored JSON document) is a     *)
(* sequence of one-character strings, so that formatting, trimming,        *)
(* serialising and parsing are computed character by character.            *)
(***************************************************************************)
EXTENDS Integers, Sequences, FiniteSets, TLC

(* ----------------------------------------------------------------------- *)
(* Bounds of the model                                                     *)
(* ----------------------------------------------------------------------- *)

\* Number of setInterval handles the timer may acquire (Start clicks that start).
MaxStarts == 3

\* Length the quick-task list may reach.
MaxTasks == 2

\* Date.now() at page load, and the milliseconds that may pass afterwards.
ClockStart == 9

MaxClockTicks == 1

\* The interleaving of all components: seconds of countdown, starts and tasks.
AppTicks == 1

AppStarts == 1

AppTasks == 1

(* ----------------------------------------------------------------------- *)
(* Text helpers (String(n), padStart)                                      *)
(* ----------------------------------------------------------------------- *)

Digits == <<"0", "1", "2", "3", "4", "5", "6", "7", "8", "9">>

DigitChar(d) == Digits[d + 1]

\* String(n) for a non-negative integer n: its decimal digits.
RECURSIVE NumberToString(_)
NumberToString(n) ==
  IF n < 10 THEN <<DigitChar(n)>>
  ELSE NumberToString(n \div 10) \o <<DigitChar(n % 10)>>

\* s.padStart(len, ch) with a one-character pad string.
padStart(s, len, ch) ==
  IF Len(s) >= len THEN s
  ELSE [i \in 1..(len - Len(s)) |-> ch] \o s


(* ----------------------------------------------------------------------- *)
(* 1. Constants and default state                                          *)
(* ----------------------------------------------------------------------- *)

LEVEL_THRESHOLDS == <<0, 100, 250, 450, 700>>

TitleLinux == <<"L", "i", "n", "u", "x", " ", "F", "u", "n", "d", "a", "m", "e", "n", "t", "a", "l", "s">>

TitleGit == <<"G", "i", "t", " ", "&", " ", "V", "e", "r", "s", "i", "o", "n", " ", "C", "o", "n", "t", "r", "o", "l">>

TitleContainers == <<"C", "o", "n", "t", "a", "i", "n", "e", "r", "i", "z", "a", "t", "i", "o", "n">>

TextFilePermissions == <<"F", "i", "l", "e", " ", "P", "e", "r", "m", "i", "s", "s", "i", "o", "n", "s">>

TextProcessManagement == <<"P", "r", "o", "c", "e", "s", "s", " ", "M", "a", "n", "a", "g", "e", "m", "e", "n", "t">>

TextBranching == <<"B", "r", "a", "n", "c", "h", "i", "n", "g">>

TextMergeConflicts == <<"M", "e", "r", "g", "e", " ", "C", "o", "n", "f", "l", "i", "c", "t", "s">>

TextDockerfiles == <<"D", "o", "c", "k", "e", "r", "f", "i", "l", "e", "s">>

TextVolumes == <<"V", "o", "l", "u", "m", "e", "s">>

DEFAULT_STATE ==
  [ xp |-> 0,
    level |-> 1,
    roadmap |-> <<
      [ id |-> 1, title |-> TitleLinux, tasks |-> <<
          [id |-> 101, text |-> TextFilePermissions, done |-> FALSE, xpReward |-> 50],
          [id |-> 102, text |-> TextProcessManagement, done |-> FALSE, xpReward |-> 50] >> ],
      [ id |-> 2, title |-> TitleGit, tasks |-> <<
          [id |-> 201, text |-> TextBranching, done |-> FALSE, xpReward |-> 75],
          [id |-> 202, text |-> TextMergeConflicts, done |-> FALSE, xpReward |-> 75] >> ],
      [ id |-> 3, title |-> TitleContainers, tasks |-> <<
          [id |-> 301, text |-> TextDockerfiles, done |-> FALSE, xpReward |-> 100],
          [id |-> 302, text |-> TextVolumes, done |-> FALSE, xpReward |-> 100] >> ] >>,
    tasks |-> <<>> ]

(* ----------------------------------------------------------------------- *)
(* JSON values, JSON.stringify and JSON.parse                              *)
(* ----------------------------------------------------------------------- *)

\* A JSON value: t is its type; b, n, s hold a boolean, number or string; a
\* holds an array's items or an object's member values, k an object's keys.
JValue(t, b, n, s, a, k) == [t |-> t, b |-> b, n |-> n, s |-> s, a |-> a, k |-> k]

JNull == JValue("null", FALSE, 0, <<>>, <<>>, <<>>)

JBool(b) == JValue("bool", b, 0, <<>>, <<>>, <<>>)

JNum(n) == JValue("num", FALSE, n, <<>>, <<>>, <<>>)

JStr(s) == JValue("str", FALSE, 0, s, <<>>, <<>>)

JArr(a) == JValue("arr", FALSE, 0, <<>>, a, <<>>)

JObj(k, a) == JValue("obj", FALSE, 0, <<>>, a, k)

KeyXp == <<"x", "p">>

KeyLevel == <<"l", "e", "v", "e", "l">>

KeyRoadmap == <<"r", "o", "a", "d", "m", "a", "p">>

KeyTasks == <<"t", "a", "s", "k", "s">>

KeyId == <<"i", "d">>

KeyTitle == <<"t", "i", "t", "l", "e">>

KeyText == <<"t", "e", "x", "t">>

KeyDone == <<"d", "o", "n", "e">>

KeyXpReward == <<"x", "p", "R", "e", "w", "a", "r", "d">>

LitTrue == <<"t", "r", "u", "e">>

LitFalse == <<"f", "a", "l", "s", "e">>

LitNull == <<"n", "u", "l", "l">>

\* Concatenation of a sequence of texts with a separator between them (Array.join).
RECURSIVE Join(_, _)
Join(parts, sep) ==
  IF parts = <<>> THEN <<>>
  ELSE IF Len(parts) = 1 THEN parts[1]
  ELSE parts[1] \o sep \o Join(Tail(parts), sep)

\* JSON.stringify of one character inside a string literal.
EscapeChar(c) ==
  IF c = "\"" THEN <<"\\", "\"">>
  ELSE IF c = "\\" THEN <<"\\", "\\">>
  ELSE IF c = "\n" THEN <<"\\", "n">>
  ELSE IF c = "\t" THEN <<"\\", "t">>
  ELSE <<c>>

RECURSIVE EscapeString(_)
EscapeString(s) ==
  IF s = <<>> THEN <<>> ELSE EscapeChar(Head(s)) \o EscapeString(Tail(s))

\* A string literal whose characters are not escaped.
QuoteRaw(s) == <<"\"">> \o s \o <<"\"">>

\* JSON.stringify of a string.
Quote(s) == <<"\"">> \o EscapeString(s) \o <<"\"">>

\* JSON.stringify(value), without indentation.
RECURSIVE Stringify(_)
Stringify(v) ==
  IF v.t = "null" THEN LitNull
  ELSE IF v.t = "bool" THEN (IF v.b THEN LitTrue ELSE LitFalse)
  ELSE IF v.t = "num" THEN
    (IF v.n < 0 THEN <<"-">> \o NumberToString(-v.n) ELSE NumberToString(v.n))
  ELSE IF v.t = "str" THEN Quote(v.s)
  ELSE IF v.t = "arr" THEN
    <<"[">> \o Join([i \in 1..Len(v.a) |-> Stringify(v.a[i])], <<",">>) \o <<"]">>
  ELSE
    <<"{">>
    \o Join([i \in 1..Len(v.k) |-> Quote(v.k[i]) \o <<":">> \o Stringify(v.a[i])], <<",">>)
    \o <<"}">>

\* The character at position i of s; "" past the end.
Ch(s, i) == IF i >= 1 /\ i <= Len(s) THEN s[i] ELSE ""

JsonWhitespace == {" ", "\t", "\n", "\r"}

DigitSet == {Digits[d] : d \in 1..10}

IsDigit(c) == c \in DigitSet

DigitVal(c) == (CHOOSE d \in 1..10 : Digits[d] = c) - 1

\* A parse step's result: ok, the value read, and the position after it.
ParseOk(v, i) == [ok |-> TRUE, v |-> v, i |-> i]

ParseFail == [ok |-> FALSE, v |-> JNull, i |-> 0]

RECURSIVE SkipWs(_, _)
SkipWs(s, i) == IF Ch(s, i) \in JsonWhitespace THEN SkipWs(s, i + 1) ELSE i

Matches(s, i, lit) ==
  /\ Ch(s, i) = lit[1]
  /\ i + Len(lit) - 1 <= Len(s)
  /\ SubSeq(s, i, i + Len(lit) - 1) = lit

\* The digits of an integer from position i on (acc: the value read so far).
RECURSIVE ParseDigits(_, _, _)
ParseDigits(s, i, acc) ==
  IF IsDigit(Ch(s, i)) THEN ParseDigits(s, i + 1, acc * 10 + DigitVal(Ch(s, i)))
  ELSE [n |-> acc, i |-> i]

\* An integer literal at position i (fractions and exponents are not read).
ParseNumber(s, i) ==
  LET neg == Ch(s, i) = "-"
      j == IF neg THEN i + 1 ELSE i
      d == ParseDigits(s, j, 0)
  IN  IF ~IsDigit(Ch(s, j)) THEN ParseFail
      ELSE IF Ch(s, j) = "0" /\ IsDigit(Ch(s, j + 1)) THEN ParseFail
      ELSE ParseOk(JNum(IF neg THEN -d.n ELSE d.n), d.i)

\* Characters that end or interrupt the run of plain characters of a string literal.
StringStops == {"", "\"", "\\", "\n", "\t", "\r"}

\* Characters that may follow a backslash in a string literal (\uXXXX is not read).
EscapeCodes == {"\"", "\\", "/", "n", "t"}

\* The position of the closing quote of the string literal whose characters
\* start at position i, and whether it holds escapes (esc); ok is FALSE for an
\* unterminated literal, a raw control character or an unknown escape.
RECURSIVE StringEnd(_, _, _)
StringEnd(s, i, esc) ==
  IF Ch(s, i) \notin StringStops THEN StringEnd(s, i + 1, esc)
  ELSE IF Ch(s, i) = "\"" THEN [ok |-> TRUE, end |-> i, esc |-> esc]
  ELSE IF Ch(s, i) = "\\" /\ Ch(s, i + 1) \in EscapeCodes THEN StringEnd(s, i + 2, TRUE)
  ELSE [ok |-> FALSE, end |-> 0, esc |-> esc]

\* The characters that the escaped text t stands for.
RECURSIVE Unescape(_)
Unescape(t) ==
  IF t = <<>> THEN <<>>
  ELSE IF Head(t) = "\\" THEN
    <<(IF t[2] = "n" THEN "\n" ELSE IF t[2] = "t" THEN "\t" ELSE t[2])>>
    \o Unescape(SubSeq(t, 3, Len(t)))
  ELSE <<Head(t)>> \o Unescape(Tail(t))

\* The string literal whose opening quote precedes position i: its characters
\* (s) and the position after its closing quote (i).
ParseChars(s, i) ==
  LET e == StringEnd(s, i, FALSE)
      raw == SubSeq(s, i, e.end - 1)
  IN  IF ~e.ok THEN [ok |-> FALSE, s |-> <<>>, i |-> 0]
      ELSE [ok |-> TRUE, s |-> IF e.esc THEN Unescape(raw) ELSE raw, i |-> e.end + 1]

RECURSIVE ParseValue(_, _)
RECURSIVE ParseElements(_, _, _)
RECURSIVE ParseMembers(_, _, _, _)

\* The items of an array after its first item position i (acc: the items so far).
ParseElements(s, i, acc) ==
  LET r == ParseValue(s, i)
      j == SkipWs(s, r.i)
  IN  IF ~r.ok THEN ParseFail
      ELSE IF Ch(s, j) = "," THEN ParseElements(s, j + 1, Append(acc, r.v))
      ELSE IF Ch(s, j) = "]" THEN ParseOk(JArr(Append(acc, r.v)), j + 1)
      ELSE ParseFail

\* The members of an object from position i on (keys, vals: the members so far).
ParseMembers(s, i, keys, vals) ==
  LET j == SkipWs(s, i)
      key == ParseChars(s, j + 1)
      c == SkipWs(s, key.i)
      r == ParseValue(s, c + 1)
      e == SkipWs(s, r.i)
  IN  IF Ch(s, j) # "\"" THEN ParseFail
      ELSE IF ~key.ok THEN ParseFail
      ELSE IF Ch(s, c) # ":" THEN ParseFail
      ELSE IF ~r.ok THEN ParseFail
      ELSE IF Ch(s, e) = "," THEN
        ParseMembers(s, e + 1, Append(keys, key.s), Append(vals, r.v))
      ELSE IF Ch(s, e) = "}" THEN
        ParseOk(JObj(Append(keys, key.s), Append(vals, r.v)), e + 1)
      ELSE ParseFail

\* The JSON value that starts at position i, after optional whitespace.
ParseValue(s, i) ==
  LET j == SkipWs(s, i)
      c == Ch(s, j)
  IN  IF c = "{" THEN
        (IF Ch(s, SkipWs(s, j + 1)) = "}"
           THEN ParseOk(JObj(<<>>, <<>>), SkipWs(s, j + 1) + 1)
           ELSE ParseMembers(s, j + 1, <<>>, <<>>))
      ELSE IF c = "[" THEN
        (IF Ch(s, SkipWs(s, j + 1)) = "]"
           THEN ParseOk(JArr(<<>>), SkipWs(s, j + 1) + 1)
           ELSE ParseElements(s, j + 1, <<>>))
      ELSE IF c = "\"" THEN
        (LET str == ParseChars(s, j + 1)
         IN  IF str.ok THEN ParseOk(JStr(str.s), str.i) ELSE ParseFail)
      ELSE IF Matches(s, j, LitTrue) THEN ParseOk(JBool(TRUE), j + Len(LitTrue))
      ELSE IF Matches(s, j, LitFalse) THEN ParseOk(JBool(FALSE), j + Len(LitFalse))
      ELSE IF Matches(s, j, LitNull) THEN ParseOk(JNull, j + Len(LitNull))
      ELSE ParseNumber(s, j)

\* JSON.parse(text): ok is FALSE where JSON.parse throws a SyntaxError.
JSONparse(text) ==
  LET r == ParseValue(text, 1)
  IN  IF r.ok /\ SkipWs(text, r.i) = Len(text) + 1 THEN r ELSE ParseFail

(* ----------------------------------------------------------------------- *)
(* 3. XP and leveling                                                      *)
(* ----------------------------------------------------------------------- *)

\* The for loop of computeLevel from index i (0-based, as in the source) on.
RECURSIVE computeLevelLoop(_, _, _)
computeLevelLoop(xp, i, level) ==
  IF i < Len(LEVEL_THRESHOLDS)
    THEN IF xp >= LEVEL_THRESHOLDS[i + 1]
           THEN computeLevelLoop(xp, i + 1, i + 1)
           ELSE level
    ELSE level

computeLevel(xp) == computeLevelLoop(xp, 1, 1)

\* Math.max(a, b)
MathMax(a, b) == IF a >= b THEN a ELSE b

\* Math.round(num / den) for den > 0: halves round towards plus infinity.
MathRound(num, den) == (2 * num + den) \div (2 * den)

\* LEVEL_THRESHOLDS[level] of the source (0-based) is undefined past the table.
HasNextThreshold(level) == level >= 0 /\ level < Len(LEVEL_THRESHOLDS)

getLevelProgress(xp, level) ==
  LET from == IF level >= 1 /\ level <= Len(LEVEL_THRESHOLDS)
                THEN LEVEL_THRESHOLDS[level] ELSE 0
  IN  IF ~HasNextThreshold(level) THEN 100
      ELSE MathRound((xp - from) * 100, LEVEL_THRESHOLDS[level + 1] - from)

\* renderXPBar(): the header labels and the fill of the XP bar after it.
renderXPBar(st) ==
  LET progress == getLevelProgress(st.xp, st.level)
  IN  [levelLabel |-> <<"Level ">> \o NumberToString(st.level),
       xpLabel |-> IF HasNextThreshold(st.level)
                     THEN NumberToString(st.xp) \o <<" / ">>
                          \o NumberToString(LEVEL_THRESHOLDS[st.level + 1]) \o <<" XP">>
                     ELSE NumberToString(st.xp) \o <<" XP - Max Level">>,
       width |-> NumberToString(progress) \o <<"%">>,
       ariaValuenow |-> progress]

(* ----------------------------------------------------------------------- *)
(* 4. Roadmap / skill tree: rendering                                      *)
(* ----------------------------------------------------------------------- *)

\* category.tasks.filter(t => t.done).length
doneTasks(category) == Cardinality({i \in 1..Len(category.tasks) : category.tasks[i].done})

\* One <li> of a skill card: its class and its checkbox.
SkillTaskRow(category, task) ==
  [className |-> IF task.done THEN "skill-task skill-task--done" ELSE "skill-task",
   categoryId |-> NumberToString(category.id),
   taskId |-> NumberToString(task.id),
   checked |-> task.done]

\* One card of #skill-tree.
SkillCard(category) ==
  LET totalTasks == Len(category.tasks)
      allDone == doneTasks(category) = totalTasks /\ totalTasks > 0
  IN  [className |-> IF allDone THEN "skill-card skill-card--complete" ELSE "skill-card",
       badge |-> NumberToString(doneTasks(category)) \o <<"/">> \o NumberToString(totalTasks),
       progressPct |-> IF totalTasks # 0
                         THEN MathRound(doneTasks(category) * 100, totalTasks) ELSE 0,
       rows |-> [i \in 1..totalTasks |-> SkillTaskRow(category, category.tasks[i])]]

\* renderRoadmap(): the children of #skill-tree after it.
renderRoadmap(st) == [i \in 1..Len(st.roadmap) |-> SkillCard(st.roadmap[i])]

(* ----------------------------------------------------------------------- *)
(* 2. State management                                                     *)
(* ----------------------------------------------------------------------- *)

\* The objects of `state` as JSON values, keys in the order of the object literals.
TaskToJSON(t) ==
  JObj(<<KeyId, KeyText, KeyDone>>, <<JNum(t.id), JStr(t.text), JBool(t.done)>>)

RoadmapTaskToJSON(t) ==
  JObj(<<KeyId, KeyText, KeyDone, KeyXpReward>>,
       <<JNum(t.id), JStr(t.text), JBool(t.done), JNum(t.xpReward)>>)

CategoryToJSON(c) ==
  JObj(<<KeyId, KeyTitle, KeyTasks>>,
       <<JNum(c.id), JStr(c.title),
         JArr([i \in 1..Len(c.tasks) |-> RoadmapTaskToJSON(c.tasks[i])])>>)

StateToJSON(st) ==
  JObj(<<KeyXp, KeyLevel, KeyRoadmap, KeyTasks>>,
       <<JNum(st.xp), JNum(st.level),
         JArr([i \in 1..Len(st.roadmap) |-> CategoryToJSON(st.roadmap[i])]),
         JArr([i \in 1..Len(st.tasks) |-> TaskToJSON(st.tasks[i])])>>)

\* obj[key]: the value of the last member named key; JNull where there is none.
Get(obj, key) ==
  LET at == {i \in 1..Len(obj.k) : obj.k[i] = key}
  IN  IF at = {} THEN JNull ELSE obj.a[CHOOSE i \in at : \A j \in at : j <= i]

TaskFromJSON(v) ==
  [id |-> Get(v, KeyId).n, text |-> Get(v, KeyText).s, done |-> Get(v, KeyDone).b]

RoadmapTaskFromJSON(v) ==
  [id |-> Get(v, KeyId).n, text |-> Get(v, KeyText).s, done |-> Get(v, KeyDone).b,
   xpReward |-> Get(v, KeyXpReward).n]

CategoryFromJSON(v) ==
  [id |-> Get(v, KeyId).n, title |-> Get(v, KeyTitle).s,
   tasks |-> [i \in 1..Len(Get(v, KeyTasks).a) |-> RoadmapTaskFromJSON(Get(v, KeyTasks).a[i])]]

StateFromJSON(v) ==
  [xp |-> Get(v, KeyXp).n,
   level |-> Get(v, KeyLevel).n,
   roadmap |-> [i \in 1..Len(Get(v, KeyRoadmap).a) |-> CategoryFromJSON(Get(v, KeyRoadmap).a[i])],
   tasks |-> [i \in 1..Len(Get(v, KeyTasks).a) |-> TaskFromJSON(Get(v, KeyTasks).a[i])]]

\* localStorage under STORAGE_KEY: no item, or the stored text.
NoItem == [present |-> FALSE, value |-> <<>>]

\* localStorage.getItem(STORAGE_KEY) as JSON.parse reads it: null is read as "null".
getItem(stor) == IF stor.present THEN stor.value ELSE LitNull

\* loadState without its last statement: the stored level is kept.
LoadedStateKeepLevel(r) ==
  IF r.ok /\ r.v.t # "null" THEN StateFromJSON(r.v) ELSE DEFAULT_STATE

\* loadState() from the outcome r of JSON.parse(localStorage.getItem(STORAGE_KEY)):
\* saved ?? clone(DEFAULT_STATE), the default state in the catch block, and then
\* state.level = computeLevel(state.xp).
LoadedState(r) ==
  LET st == IF r.ok /\ r.v.t # "null" THEN StateFromJSON(r.v) ELSE DEFAULT_STATE
  IN  [st EXCEPT !.level = computeLevel(st.xp)]

\* loadState(): the value of `state` after it, for the given storage.
loadState(stor) == LoadedState(JSONparse(getItem(stor)))

\* The file is in strict mode: creating a property on a number, a string or a
\* boolean throws a TypeError.
IsPrimitive(v) == v.t \in {"num", "bool", "str"}

IsArray(v) == v.t = "arr"

\* null, and undefined (a member that is missing): reading a property of it
\* throws a TypeError.
IsNullish(v) == v.t = "null"

KeyLength == <<"l", "e", "n", "g", "t", "h">>

\* loadState() throws: `state.level = ...` is outside the try block, and the
\* parsed value became `state` whatever it is.
loadStateThrows(r) == r.ok /\ IsPrimitive(r.v)

\* renderRoadmap() throws on the parsed value v that became `state`:
\* state.roadmap.forEach, category.tasks.filter, task.done.
renderRoadmapThrows(v) ==
  LET roadmap == Get(v, KeyRoadmap)
  IN  \/ ~IsArray(roadmap)
      \/ \E i \in 1..Len(roadmap.a) :
           LET category == roadmap.a[i]
               tasks == Get(category, KeyTasks)
           IN  \/ IsNullish(category)
               \/ ~IsArray(tasks)
               \/ \E j \in 1..Len(tasks.a) : IsNullish(tasks.a[j])

\* renderTasks() throws on the parsed value v that became `state`:
\* state.tasks.length, state.tasks.forEach, task.done.
renderTasksThrows(v) ==
  LET tasks == Get(v, KeyTasks)
  IN  IF IsArray(tasks) THEN \E j \in 1..Len(tasks.a) : IsNullish(tasks.a[j])
      ELSE IF tasks.t = "str" THEN Len(tasks.s) # 0
      ELSE IF tasks.t = "obj" THEN Get(tasks, KeyLength) # JNum(0)
      ELSE TRUE

\* The uncaught exception of the DOMContentLoaded listener, if there is one:
\* "loadState" where loadState() throws (no listener is attached then),
\* "renderAll" where the first renderAll() throws, "none" otherwise.
bootFault(r) ==
  IF loadStateThrows(r) THEN "loadState"
  ELSE IF r.ok /\ r.v.t # "null" /\ (renderRoadmapThrows(r.v) \/ renderTasksThrows(r.v))
    THEN "renderAll"
  ELSE "none"

\* saveState(): the storage after it, for the given `state`.
saveState(st) == [present |-> TRUE, value |-> Stringify(StateToJSON(st))]

(* ----------------------------------------------------------------------- *)
(* 5. Quick task manager: pure parts                                       *)
(* ----------------------------------------------------------------------- *)

TrimWhitespace == {" ", "\t", "\n", "\r"}

RECURSIVE trimStart(_)
trimStart(s) ==
  IF s # <<>> /\ Head(s) \in TrimWhitespace THEN trimStart(Tail(s)) ELSE s

RECURSIVE trimEnd(_)
trimEnd(s) ==
  IF s # <<>> /\ s[Len(s)] \in TrimWhitespace THEN trimEnd(SubSeq(s, 1, Len(s) - 1)) ELSE s

\* A submit handler that forgets .trim().
noTrim(s) == s

\* String.prototype.trim
trim(s) == trimEnd(trimStart(s))

NaN == -1

\* Number(text) for the text of a data-id attribute: surrounding whitespace is
\* dropped, the empty text is 0, decimal digits are their value, other text is NaN.
Number(text) ==
  LET t == trim(text)
  IN  IF t = <<>> THEN 0
      ELSE IF \A i \in 1..Len(t) : IsDigit(t[i]) THEN ParseDigits(t, 1, 0).n
      ELSE NaN

\* a === b on numbers: NaN equals nothing.
StrictEquals(a, b) == a # NaN /\ b # NaN /\ a = b

\* unshift instead of push: the new record goes to the front.
unshiftTask(tasks, id, text) == <<[id |-> id, text |-> text, done |-> FALSE]>> \o tasks

\* state.tasks.push({ id, text, done: false })
pushTask(tasks, id, text) == Append(tasks, [id |-> id, text |-> text, done |-> FALSE])

\* state.tasks.filter(t => t.id !== id) that drops the last record on a miss
\* (findIndex and splice(-1, 1)).
filterTasksSpliceLast(tasks, id) ==
  LET at == {i \in 1..Len(tasks) : StrictEquals(tasks[i].id, id)}
      k == IF at = {} THEN Len(tasks) ELSE CHOOSE i \in at : \A j \in at : i <= j
  IN  [i \in 1..(Len(tasks) - (IF tasks = <<>> THEN 0 ELSE 1)) |->
         IF i < k THEN tasks[i] ELSE tasks[i + 1]]

\* state.tasks.filter(t => t.id !== id)
filterTasks(tasks, id) == SelectSeq(tasks, LAMBDA t : ~StrictEquals(t.id, id))

\* state.tasks.find(t => t.id === id): the index of the first match, 0 for none.
findTask(tasks, id) ==
  LET at == {i \in 1..Len(tasks) : StrictEquals(tasks[i].id, id)}
  IN  IF at = {} THEN 0 ELSE CHOOSE i \in at : \A j \in at : i <= j

\* The checkbox branch marking the found task done instead of flipping it.
toggleTaskSetDone(tasks, id) ==
  LET k == findTask(tasks, id)
  IN  IF k = 0 THEN tasks ELSE [tasks EXCEPT ![k].done = TRUE]

\* const task = find(...); if (task) task.done = !task.done
toggleTask(tasks, id) ==
  LET k == findTask(tasks, id)
  IN  IF k = 0 THEN tasks ELSE [tasks EXCEPT ![k].done = ~@]

EmptyLabel == <<"No tasks yet - add one above!">>

\* One <li> of #task-list: its class, and its checkbox, data-id and label.
TaskRow(task) ==
  [className |-> IF task.done THEN "task-item task-item--done" ELSE "task-item",
   checked |-> task.done,
   dataId |-> NumberToString(task.id),
   label |-> task.text]

EmptyRow ==
  [className |-> "task-list__empty", checked |-> FALSE, dataId |-> <<>>, label |-> EmptyLabel]

\* renderTasks that puts the placeholder row above the task rows of any list.
renderTasksWithPlaceholder(tasks) ==
  <<EmptyRow>> \o [i \in 1..Len(tasks) |-> TaskRow(tasks[i])]

\* renderTasks(): the children of #task-list after it.
renderTasks(tasks) ==
  IF Len(tasks) = 0 THEN <<EmptyRow>>
  ELSE [i \in 1..Len(tasks) |-> TaskRow(tasks[i])]

(* ----------------------------------------------------------------------- *)
(* 6. Pomodoro timer                                                       *)
(* ----------------------------------------------------------------------- *)

POMODORO_SECONDS == 25 * 60

DoneText == <<"D", "o", "n", "e", "!">>

PlatformTitle == <<"DevOps Learning Platform">>

DeepWorkSuffix == <<" ", "-", " ", "Deep Work">>

\* Markup of index.html: the Start button is enabled, the Pause button disabled.
InitialStartDisabled == FALSE

InitialPauseDisabled == TRUE

NoRun == -1

(* ----------------------------------------------------------------------- *)
(* 7. Real-time clock: pure parts                                          *)
(* ----------------------------------------------------------------------- *)

\* The text tick() writes to #clock for a local time of day.
clockText(hh, mm, ss) ==
  padStart(NumberToString(hh), 2, "0") \o <<":">>
  \o padStart(NumberToString(mm), 2, "0") \o <<":">>
  \o padStart(NumberToString(ss), 2, "0")

\* The greeting with "hour > 5" for "hour >= 5".
greetingAfterFive(hour) ==
  IF hour > 5 /\ hour < 12 THEN "Good morning"
  ELSE IF hour >= 12 /\ hour < 17 THEN "Good afternoon"
  ELSE IF hour >= 17 /\ hour < 21 THEN "Good evening"
  ELSE "Good night"

\* const greeting = ... of tick().
greeting(hour) ==
  IF hour >= 5 /\ hour < 12 THEN "Good morning"
  ELSE IF hour >= 12 /\ hour < 17 THEN "Good afternoon"
  ELSE IF hour >= 17 /\ hour < 21 THEN "Good evening"
  ELSE "Good night"

VARIABLES
  fatal,          \* the uncaught exception of the DOMContentLoaded listener, "none" if none
  xpBarEl,        \* #level-label, #xp-label and #xp-bar-fill
  skillTreeEl,    \* children of #skill-tree
  clockEl,        \* #clock textContent
  greetingEl,     \* #greeting textContent
  state,          \* let state: xp, level, roadmap, tasks
  storage,        \* localStorage item under STORAGE_KEY
  taskListEl,     \* children of #task-list
  now,            \* Date.now()
  remaining,      \* initTimer: let remaining
  intervalId,     \* initTimer: let intervalId (0 models null)
  running,        \* initTimer: let running
  display,        \* #timer-display textContent
  title,          \* document.title
  startDisabled,  \* #timer-start disabled
  pauseDisabled,  \* #timer-pause disabled
  intervals,      \* handles of the timer's recurring schedules that are active
  handles,        \* number of handles setInterval has handed to the timer
  runTicks,       \* ticks executed since a Start from Idle with no Pause/Reset since; NoRun otherwise
  lastEvent,      \* the handler that ran last
  lastArg         \* the text that handler read: the input's value, the target's data-id

taskVars == <<state, storage, taskListEl, now>>

timerVars == <<remaining, intervalId, running, display, title, startDisabled,
               pauseDisabled, intervals, handles, runTicks>>

headerVars == <<fatal, xpBarEl, skillTreeEl, clockEl, greetingEl>>

vars == <<taskVars, timerVars, headerVars, lastEvent, lastArg>>

\* The listeners are attached: the DOMContentLoaded listener got past loadState().
Attached == fatal # "loadState"

\* The listeners are attached and `state` has the shape of DEFAULT_STATE. The
\* handlers that read `state` are modelled on such pages only.
Ready == fatal = "none"

\* The handler `name` runs and reads `arg`.
Event(name, arg) == lastEvent' = name /\ lastArg' = arg

formatTime(secs) ==
  LET m == padStart(NumberToString(secs \div 60), 2, "0")
      s == padStart(NumberToString(secs % 60), 2, "0")
  IN  m \o <<":">> \o s

\* updateDisplay() for the given values of remaining and running: <<textContent, title>>.
updateDisplay(rem, run) ==
  LET formatted == formatTime(rem)
  IN  <<formatted, IF run THEN formatted \o DeepWorkSuffix ELSE PlatformTitle>>

\* setRunningState(isRunning): <<startBtn.disabled, pauseBtn.disabled>>.
setRunningState(isRunning) == <<isRunning, ~isRunning>>

\* clearInterval(id): cancels the schedule with that handle, if it is active.
clearInterval(active, id) == active \ {id}

\* tick() without its "remaining <= 0" test: it always decrements.
tickNoZeroTest ==
  /\ intervals # {}
  /\ Event("tick", <<>>)
  /\ Attached
  /\ UNCHANGED <<taskVars, headerVars>>
  /\ remaining' = remaining - 1
  /\ display' = updateDisplay(MathMax(remaining', 0), running)[1]
  /\ title' = updateDisplay(MathMax(remaining', 0), running)[2]
  /\ UNCHANGED <<intervals, running, startDisabled, pauseDisabled>>
  /\ runTicks' = IF runTicks = NoRun THEN NoRun ELSE runTicks + 1
  /\ UNCHANGED <<intervalId, handles>>

\* tick(), run by an active recurring schedule.
tick ==
  /\ intervals # {}
  /\ Event("tick", <<>>)
  /\ Attached
  /\ UNCHANGED <<taskVars, headerVars>>
  /\ IF remaining <= 0
       THEN /\ intervals' = clearInterval(intervals, intervalId)
            /\ running' = FALSE
            /\ startDisabled' = setRunningState(FALSE)[1]
            /\ pauseDisabled' = setRunningState(FALSE)[2]
            /\ display' = DoneText
            /\ title' = PlatformTitle
            /\ remaining' = remaining
       ELSE /\ remaining' = remaining - 1
            /\ display' = updateDisplay(remaining', running)[1]
            /\ title' = updateDisplay(remaining', running)[2]
            /\ UNCHANGED <<intervals, running, startDisabled, pauseDisabled>>
  /\ runTicks' = IF runTicks = NoRun THEN NoRun ELSE runTicks + 1
  /\ UNCHANGED <<intervalId, handles>>

\* startClick without its "remaining <= 0" guard.
startClickNoZeroGuard ==
  /\ Event("start", <<>>)
  /\ Attached
  /\ UNCHANGED <<taskVars, headerVars>>
  /\ IF running
       THEN UNCHANGED timerVars
       ELSE /\ handles < MaxStarts
            /\ running' = TRUE
            /\ handles' = handles + 1
            /\ intervalId' = handles'
            /\ intervals' = intervals \cup {intervalId'}
            /\ startDisabled' = setRunningState(TRUE)[1]
            /\ pauseDisabled' = setRunningState(TRUE)[2]
            /\ display' = updateDisplay(remaining, running')[1]
            /\ title' = updateDisplay(remaining, running')[2]
            /\ runTicks' = IF remaining = POMODORO_SECONDS THEN 0 ELSE NoRun
            /\ UNCHANGED remaining

\* startClick without its "running" guard: a second schedule may be started.
startClickNoRunningGuard ==
  /\ Event("start", <<>>)
  /\ Attached
  /\ UNCHANGED <<taskVars, headerVars>>
  /\ IF remaining <= 0
       THEN UNCHANGED timerVars
       ELSE /\ handles < MaxStarts
            /\ running' = TRUE
            /\ handles' = handles + 1
            /\ intervalId' = handles'
            /\ intervals' = intervals \cup {intervalId'}
            /\ startDisabled' = setRunningState(TRUE)[1]
            /\ pauseDisabled' = setRunningState(TRUE)[2]
            /\ display' = updateDisplay(remaining, running')[1]
            /\ title' = updateDisplay(remaining, running')[2]
            /\ runTicks' = IF remaining = POMODORO_SECONDS THEN 0 ELSE NoRun
            /\ UNCHANGED remaining

\* Click listener of #timer-start.
startClick ==
  /\ Event("start", <<>>)
  /\ Attached
  /\ UNCHANGED <<taskVars, headerVars>>
  /\ IF running \/ remaining <= 0
       THEN UNCHANGED timerVars
       ELSE /\ handles < MaxStarts
            /\ running' = TRUE
            /\ handles' = handles + 1
            /\ intervalId' = handles'
            /\ intervals' = intervals \cup {intervalId'}
            /\ startDisabled' = setRunningState(TRUE)[1]
            /\ pauseDisabled' = setRunningState(TRUE)[2]
            /\ display' = updateDisplay(remaining, running')[1]
            /\ title' = updateDisplay(remaining, running')[2]
            /\ runTicks' = IF remaining = POMODORO_SECONDS THEN 0 ELSE NoRun
            /\ UNCHANGED remaining

\* pauseClick that forgets clearInterval(intervalId).
pauseClickNoClear ==
  /\ Event("pause", <<>>)
  /\ Attached
  /\ UNCHANGED <<taskVars, headerVars>>
  /\ IF ~running
       THEN UNCHANGED timerVars
       ELSE /\ running' = FALSE
            /\ startDisabled' = setRunningState(FALSE)[1]
            /\ pauseDisabled' = setRunningState(FALSE)[2]
            /\ runTicks' = NoRun
            /\ UNCHANGED <<remaining, intervalId, handles, display, title, intervals>>

\* Click listener of #timer-pause.
pauseClick ==
  /\ Event("pause", <<>>)
  /\ Attached
  /\ UNCHANGED <<taskVars, headerVars>>
  /\ IF ~running
       THEN UNCHANGED timerVars
       ELSE /\ intervals' = clearInterval(intervals, intervalId)
            /\ running' = FALSE
            /\ startDisabled' = setRunningState(FALSE)[1]
            /\ pauseDisabled' = setRunningState(FALSE)[2]
            /\ runTicks' = NoRun
            /\ UNCHANGED <<remaining, intervalId, handles, display, title>>

\* resetClick that forgets clearInterval(intervalId).
resetClickNoClear ==
  /\ Event("reset", <<>>)
  /\ Attached
  /\ UNCHANGED <<taskVars, headerVars>>
  /\ running' = FALSE
  /\ remaining' = POMODORO_SECONDS
  /\ startDisabled' = setRunningState(FALSE)[1]
  /\ pauseDisabled' = setRunningState(FALSE)[2]
  /\ display' = updateDisplay(remaining', running')[1]
  /\ title' = updateDisplay(remaining', running')[2]
  /\ runTicks' = NoRun
  /\ UNCHANGED <<intervalId, handles, intervals>>

\* resetClick that also puts `state` back to DEFAULT_STATE and saves it.
resetClickResetsState ==
  /\ Event("reset", <<>>)
  /\ Attached
  /\ state' = DEFAULT_STATE
  /\ storage' = saveState(state')
  /\ UNCHANGED <<taskListEl, now, headerVars>>
  /\ intervals' = clearInterval(intervals, intervalId)
  /\ running' = FALSE
  /\ remaining' = POMODORO_SECONDS
  /\ startDisabled' = setRunningState(FALSE)[1]
  /\ pauseDisabled' = setRunningState(FALSE)[2]
  /\ display' = updateDisplay(remaining', running')[1]
  /\ title' = updateDisplay(remaining', running')[2]
  /\ runTicks' = NoRun
  /\ UNCHANGED <<intervalId, handles>>

\* Click listener of #timer-reset.
resetClick ==
  /\ Event("reset", <<>>)
  /\ Attached
  /\ UNCHANGED <<taskVars, headerVars>>
  /\ intervals' = clearInterval(intervals, intervalId)
  /\ running' = FALSE
  /\ remaining' = POMODORO_SECONDS
  /\ startDisabled' = setRunningState(FALSE)[1]
  /\ pauseDisabled' = setRunningState(FALSE)[2]
  /\ display' = updateDisplay(remaining', running')[1]
  /\ title' = updateDisplay(remaining', running')[2]
  /\ runTicks' = NoRun
  /\ UNCHANGED <<intervalId, handles>>

(* ----------------------------------------------------------------------- *)
(* 5. Quick task manager: handlers                                         *)
(* ----------------------------------------------------------------------- *)

\* Values of #task-input at a submit.
InputValues ==
  { <<>>,
    <<" ", " ", " ">>,
    <<"a">>,
    <<" ", "a", " ">>,
    <<"b", " ", "\"">> }

\* Times Date.now() takes.
Times == ClockStart..(ClockStart + MaxClockTicks)

\* data-id attributes a clicked element may carry.
DataIds == {NumberToString(n) : n \in Times} \cup {<<"x">>}

\* Submit listener of #task-form.
taskSubmit ==
  \E value \in InputValues :
    /\ Event("submit", value)
    /\ LET text == trim(value)
       IN  IF text = <<>>
             THEN UNCHANGED <<state, storage, taskListEl>>
             ELSE /\ Len(state.tasks) < MaxTasks
                  /\ state' = [state EXCEPT !.tasks = pushTask(@, now, text)]
                  /\ storage' = saveState(state')
                  /\ taskListEl' = renderTasks(state'.tasks)
    /\ Ready
    /\ UNCHANGED <<now, timerVars, headerVars>>

\* Click listener of #task-list; the target is a delete button, a checkbox or
\* another element of the list.
taskListClick ==
  \E kind \in {"delete", "check", "other"} :
    \E dataId \in (IF kind = "other" THEN {<<>>} ELSE DataIds) :
      /\ Event(kind, dataId)
      /\ IF kind = "delete"
           THEN /\ state' = [state EXCEPT !.tasks = filterTasks(@, Number(dataId))]
                /\ storage' = saveState(state')
                /\ taskListEl' = renderTasks(state'.tasks)
           ELSE IF kind = "check" /\ findTask(state.tasks, Number(dataId)) # 0
           THEN /\ state' = [state EXCEPT !.tasks = toggleTask(@, Number(dataId))]
                /\ storage' = saveState(state')
                /\ taskListEl' = renderTasks(state'.tasks)
           ELSE UNCHANGED <<state, storage, taskListEl>>
      /\ Ready
      /\ UNCHANGED <<now, timerVars, headerVars>>

\* A millisecond passes.
clockAdvance ==
  /\ now < ClockStart + MaxClockTicks
  /\ now' = now + 1
  /\ Event("time", <<>>)
  /\ UNCHANGED <<state, storage, taskListEl, timerVars, headerVars>>

\* initTimer(): the state the page has once DOMContentLoaded has run.
initTimer ==
  /\ remaining = POMODORO_SECONDS
  /\ intervalId = 0
  /\ running = FALSE
  /\ startDisabled = InitialStartDisabled
  /\ pauseDisabled = InitialPauseDisabled
  /\ intervals = {}
  /\ handles = 0
  /\ runTicks = NoRun

(* ----------------------------------------------------------------------- *)
(* 4. Roadmap / skill tree: the change listener                            *)
(* ----------------------------------------------------------------------- *)

\* state.roadmap.find(c => c.id === categoryId): its index, 0 where there is none.
findCategory(roadmap, id) ==
  LET at == {i \in 1..Len(roadmap) : StrictEquals(roadmap[i].id, id)}
  IN  IF at = {} THEN 0 ELSE CHOOSE i \in at : \A j \in at : i <= j

\* The XP update without the tests of task.done.
awardXpUnguarded(xp, task, isChecked) ==
  IF isChecked THEN xp + task.xpReward
  ELSE MathMax(0, xp - task.xpReward)

\* Award XP when checking; revoke when unchecking: state.xp after it.
awardXp(xp, task, isChecked) ==
  IF isChecked /\ ~task.done THEN xp + task.xpReward
  ELSE IF ~isChecked /\ task.done THEN MathMax(0, xp - task.xpReward)
  ELSE xp

\* data-category-id and data-task-id of the checkboxes renderRoadmap() builds.
RenderedTargets ==
  UNION { { <<NumberToString(DEFAULT_STATE.roadmap[c].id),
              NumberToString(DEFAULT_STATE.roadmap[c].tasks[k].id)>> :
            k \in 1..Len(DEFAULT_STATE.roadmap[c].tasks) } :
          c \in 1..Len(DEFAULT_STATE.roadmap) }

\* The attributes a changed checkbox may carry: those, a task id of another
\* category, and a category id that does not exist.
RoadmapTargets ==
  RenderedTargets \cup { <<<<"1">>, <<"2", "0", "1">>>>, <<<<"9">>, <<"1", "0", "1">>>> }

\* The text the change listener reads: both attributes and checkbox.checked.
RoadmapArg(target, isChecked) ==
  target[1] \o <<"/">> \o target[2] \o <<"/">> \o (IF isChecked THEN LitTrue ELSE LitFalse)

\* Change listener of #skill-tree, for a .skill-task__check checkbox that
\* carries attributes of the given set.
roadmapChange(targets) ==
  \E target \in targets, isChecked \in BOOLEAN :
    LET categoryId == Number(target[1])
        taskId == Number(target[2])
        c == findCategory(state.roadmap, categoryId)
        k == IF c = 0 THEN 0 ELSE findTask(state.roadmap[c].tasks, taskId)
    IN  /\ Ready
        /\ Event("roadmap", RoadmapArg(target, isChecked))
        /\ IF c = 0 \/ k = 0
             THEN UNCHANGED <<state, storage, xpBarEl, skillTreeEl, taskListEl>>
             ELSE LET xp == awardXp(state.xp, state.roadmap[c].tasks[k], isChecked)
                  IN  /\ state' = [state EXCEPT !.xp = xp,
                                                !.roadmap[c].tasks[k].done = isChecked,
                                                !.level = computeLevel(xp)]
                      /\ storage' = saveState(state')
                      /\ xpBarEl' = renderXPBar(state')
                      /\ skillTreeEl' = renderRoadmap(state')
                      /\ taskListEl' = renderTasks(state'.tasks)
        /\ UNCHANGED <<now, timerVars, fatal, clockEl, greetingEl>>

\* Content of an element that index.html gives it and no script has replaced.
Markup == "index.html"

\* Local times of day (hours, minutes, seconds) the clock is read at.
WallTimes == (0..23) \X {0, 59} \X {0, 30, 59}

\* The local time of day of the first visit.
FirstVisitTime == <<9, 0, 0>>

\* tick() of initClock, run by its recurring schedule, which is never cancelled.
\* initClock() ran unless loadState() threw.
clockTick(times) ==
  \E t \in times :
    /\ fatal # "loadState"
    /\ clockEl' = clockText(t[1], t[2], t[3])
    /\ greetingEl' = IF greetingEl # greeting(t[1]) THEN greeting(t[1]) ELSE greetingEl
    /\ Event("clock", clockText(t[1], t[2], t[3]))
    /\ UNCHANGED <<taskVars, timerVars, fatal, xpBarEl, skillTreeEl>>

\* What the DOMContentLoaded listener leaves behind, for the stored item and the
\* local time it runs at: loadState(), initClock(), initRoadmap(),
\* initTaskManager(), initTimer(), renderAll(). An exception ends the listener
\* where it is thrown; what it has not reached keeps its markup. Where renderAll()
\* throws, `state` is not of the shape of DEFAULT_STATE: the members the stored
\* value lacks read as 0, FALSE or empty here, and what renderXPBar() wrote
\* from it is not modelled.
Boot(stor, t) ==
  LET r == JSONparse(getItem(stor))
      fault == bootFault(r)
      st == LoadedState(r)
      ran == fault # "loadState"
  IN  [fatal |-> fault,
       state |-> st,
       clockEl |-> IF ran THEN clockText(t[1], t[2], t[3]) ELSE <<Markup>>,
       greetingEl |-> IF ran THEN greeting(t[1]) ELSE Markup,
       display |-> IF ran THEN updateDisplay(POMODORO_SECONDS, FALSE)[1] ELSE <<Markup>>,
       title |-> IF ran THEN updateDisplay(POMODORO_SECONDS, FALSE)[2] ELSE <<Markup>>,
       xpBarEl |-> IF fault = "none" THEN renderXPBar(st) ELSE <<Markup>>,
       skillTreeEl |-> IF fault = "none" THEN renderRoadmap(st) ELSE <<>>,
       taskListEl |-> IF fault = "none" THEN renderTasks(st.tasks) ELSE <<>>]

\* The page is opened with the given item stored, at the given local time.
InitWith(stor, t) ==
  \E boot \in {Boot(stor, t)} :
      /\ storage = stor
      /\ now = ClockStart
      /\ fatal = boot.fatal
      /\ state = boot.state
      /\ clockEl = boot.clockEl
      /\ greetingEl = boot.greetingEl
      /\ initTimer
      /\ display = boot.display
      /\ title = boot.title
      /\ xpBarEl = boot.xpBarEl
      /\ skillTreeEl = boot.skillTreeEl
      /\ taskListEl = boot.taskListEl
      /\ lastEvent = "load"
      /\ lastArg = <<>>

\* The page is reloaded: its script state is dropped, the stored item stays, and
\* the DOMContentLoaded listener runs again.
reload(times) ==
  \E t \in times :
    \E boot \in {Boot(storage, t)} :
        /\ fatal' = boot.fatal
        /\ state' = boot.state
        /\ clockEl' = boot.clockEl
        /\ greetingEl' = boot.greetingEl
        /\ remaining' = POMODORO_SECONDS
        /\ intervalId' = 0
        /\ running' = FALSE
        /\ startDisabled' = InitialStartDisabled
        /\ pauseDisabled' = InitialPauseDisabled
        /\ intervals' = {}
        /\ handles' = 0
        /\ runTicks' = NoRun
        /\ display' = boot.display
        /\ title' = boot.title
        /\ xpBarEl' = boot.xpBarEl
        /\ skillTreeEl' = boot.skillTreeEl
        /\ taskListEl' = boot.taskListEl
        /\ Event("load", <<>>)
        /\ UNCHANGED <<storage, now>>

\* The DOMContentLoaded listener, on a first visit (nothing stored yet).
Init == InitWith(NoItem, FirstVisitTime)

TimerNext ==
  \/ tick
  \/ startClick
  \/ pauseClick
  \/ resetClick

TimerSpec == Init /\ [][TimerNext]_vars

TaskNext ==
  \/ taskSubmit
  \/ taskListClick
  \/ clockAdvance

TaskSpec == Init /\ [][TaskNext]_vars

\* The task manager with page reloads.
PersistNext ==
  \/ taskSubmit
  \/ taskListClick
  \/ clockAdvance
  \/ reload({FirstVisitTime})

PersistSpec == Init /\ [][PersistNext]_vars

\* The clock, from a page opened at any of the times.
ClockInit == \E t \in WallTimes : InitWith(NoItem, t)

ClockNext == clockTick(WallTimes)

ClockSpec == ClockInit /\ [][ClockNext]_vars

\* localStorage.setItem(STORAGE_KEY, text)
Stored(text) == [present |-> TRUE, value |-> text]

\* A state an earlier session saved: both Linux tasks checked, one quick task.
SavedProgress ==
  [DEFAULT_STATE EXCEPT !.xp = 100,
                        !.level = 2,
                        !.roadmap[1].tasks[1].done = TRUE,
                        !.roadmap[1].tasks[2].done = TRUE,
                        !.tasks = <<[id |-> ClockStart, text |-> <<"a">>, done |-> FALSE]>>]

\* Items a page load may find under STORAGE_KEY: none; text that is not JSON;
\* the JSON null; what saveState() wrote; that with other xp and level values;
\* JSON values that are not an object of the shape of DEFAULT_STATE.
StoredContents ==
  { NoItem,
    Stored(<<>>),
    Stored(<<"{", "o", "o", "p", "s">>),
    Stored(SubSeq(saveState(DEFAULT_STATE).value, 1, 40)),
    Stored(LitNull),
    saveState(DEFAULT_STATE),
    saveState(SavedProgress),
    saveState([SavedProgress EXCEPT !.level = 5]),
    saveState([SavedProgress EXCEPT !.xp = 700, !.level = 1]),
    Stored(<<"4", "2">>),
    Stored(LitTrue),
    Stored(<<"\"", "x", "\"">>),
    Stored(<<"{", "}">>),
    Stored(<<"[", "]">>) }

\* Page loads on any of the stored items, roadmap events and reloads.
LoadInit == \E stor \in StoredContents : InitWith(stor, FirstVisitTime)

LoadNext ==
  \/ roadmapChange(RoadmapTargets)
  \/ reload({FirstVisitTime})

LoadSpec == LoadInit /\ [][LoadNext]_vars

\* The whole page: timer, clock, task manager and roadmap events interleaved,
\* within the first AppTicks seconds of a countdown, AppStarts starts and
\* AppTasks tasks, with one roadmap checkbox and one clock reading.
AppTargets == { <<<<"1">>, <<"1", "0", "1">>>> }

AppTimes == { <<21, 0, 0>> }

AppNext ==
  \/ (remaining > POMODORO_SECONDS - AppTicks /\ tick)
  \/ (handles < AppStarts /\ startClick)
  \/ pauseClick
  \/ resetClick
  \/ (Len(state.tasks) < AppTasks /\ taskSubmit)
  \/ taskListClick
  \/ roadmapChange(AppTargets)
  \/ clockTick(AppTimes)

AppSpec == Init /\ [][AppNext]_vars

\* The roadmap with page reloads, from a first visit.
RoadmapNext ==
  \/ roadmapChange(RoadmapTargets)
  \/ reload({FirstVisitTime})

RoadmapSpec == Init /\ [][RoadmapNext]_vars

(* ----------------------------------------------------------------------- *)
(* Focus timer properties                                                  *)
(* ----------------------------------------------------------------------- *)

\* The Finished state of the timer: the countdown completed and was not reset.
Finished == remaining = 0 /\ ~running /\ display = DoneText

\* C1: after Start from Idle and exactly 1500 ticks with no Pause or Reset in
\* between, the timer is Finished: not running, no recurring schedule active,
\* and the display shows "Done!".
C1_FinishedAfter1500Ticks ==
  runTicks = POMODORO_SECONDS =>
    (~running /\ intervals = {} /\ display = DoneText)

\* C2: in every Finished state both the Start and the Pause control are disabled.
C2_FinishedControlsDisabled ==
  Finished => (startDisabled /\ pauseDisabled)

\* C3: a Start event while Running or with remaining <= 0 changes neither
\* remaining, running nor the set of active schedules; a Pause event while
\* not Running changes none of them either.
C3_StartPauseNoOp ==
  [][ /\ (lastEvent' = "start" /\ (running \/ remaining <= 0))
          => UNCHANGED <<remaining, running, intervals>>
      /\ (lastEvent' = "pause" /\ ~running)
          => UNCHANGED <<remaining, running, intervals>> ]_vars

\* A Start click was handled in the Finished state.
C3_Witness == lastEvent = "start" /\ Finished

\* C4: after a Reset event the timer is Idle (remaining = 1500, not running,
\* no active schedule, Start enabled, Pause disabled, display 25:00), and no
\* schedule exists and no tick fires from then on until a Start event.
C4_ResetToIdle ==
  /\ [](lastEvent = "reset" =>
          /\ remaining = 1500
          /\ ~running
          /\ intervals = {}
          /\ ~startDisabled
          /\ pauseDisabled
          /\ display = <<"2", "5", ":", "0", "0">>)
  /\ [][(intervals = {} /\ lastEvent' # "start")
          => (intervals' = {} /\ lastEvent' # "tick")]_vars

\* A Reset was handled after the timer had been started.
C4_Witness == lastEvent = "reset" /\ handles > 0

\* C5: while the timer is not running remaining changes only by Reset (Pause
\* freezes it), a Start event leaves remaining as it is (it resumes from the
\* frozen value, not from 1500), and each tick with remaining > 0 takes off
\* exactly one.
C5_PauseFreezesStartResumes ==
  [][ /\ (~running /\ lastEvent' # "reset") => remaining' = remaining
      /\ lastEvent' = "start" => remaining' = remaining
      /\ (lastEvent' = "tick" /\ remaining > 0) => remaining' = remaining - 1 ]_vars

\* A tick of a run that was resumed after a Pause at a value below 1500.
C5_Witness ==
  lastEvent = "tick" /\ running /\ runTicks = NoRun /\ remaining < POMODORO_SECONDS

(* ----------------------------------------------------------------------- *)
(* Task store properties                                                   *)
(* ----------------------------------------------------------------------- *)

\* The task list a reload would read back from the given storage.
PersistedTasks(stor) == loadState(stor).tasks

\* text is value without its leading and trailing whitespace.
IsTrimOf(text, value) ==
  /\ text # <<>>
  /\ text[1] # " "
  /\ text[Len(text)] # " "
  /\ \E k \in 0..(Len(value) - Len(text)) :
       /\ SubSeq(value, k + 1, k + Len(text)) = text
       /\ \A i \in 1..Len(value) : (i <= k \/ i > k + Len(text)) => value[i] = " "

\* C6: the records of the persisted task list have unique ids, and ids are
\* strictly increasing in insertion order (the order of the list).
C6_UniqueIncreasingIds ==
  \A i, j \in 1..Len(PersistedTasks(storage)) :
    i < j => PersistedTasks(storage)[i].id < PersistedTasks(storage)[j].id

\* C7: a submit whose text is empty or only whitespace changes neither the
\* in-memory state nor the stored content.
C7_BlankSubmitNoOp ==
  [][(lastEvent' = "submit" /\ \A i \in 1..Len(lastArg') : lastArg'[i] = " ")
       => UNCHANGED <<state, storage>>]_vars

\* A whitespace-only submit was handled while tasks were stored.
C7_Witness ==
  lastEvent = "submit" /\ lastArg = <<" ", " ", " ">> /\ Len(PersistedTasks(storage)) > 0

\* C8: a submit with non-blank text on list L yields L followed by one new
\* record with the trimmed text and done = false, and the persisted list (the
\* list read back from storage after the submit) is that new list.
C8_AddAppendsOne ==
  /\ [][(lastEvent' = "submit" /\ \E i \in 1..Len(lastArg') : lastArg'[i] # " ")
          => /\ Len(state'.tasks) = Len(state.tasks) + 1
             /\ SubSeq(state'.tasks, 1, Len(state.tasks)) = state.tasks
             /\ IsTrimOf(state'.tasks[Len(state'.tasks)].text, lastArg')
             /\ state'.tasks[Len(state'.tasks)].done = FALSE]_vars
  /\ []((lastEvent = "submit" /\ \E i \in 1..Len(lastArg) : lastArg[i] # " ")
          => PersistedTasks(storage) = state.tasks)

\* A padded text was added to a list that already held a record.
C8_Witness ==
  /\ lastEvent = "submit"
  /\ lastArg = <<" ", "a", " ">>
  /\ Len(state.tasks) = 2
  /\ state.tasks[1].text # state.tasks[2].text

\* The records of `after` whose done flag differs from that in `before`.
DoneChanged(before, after) == {i \in 1..Len(before) : after[i].done # before[i].done}

\* `after` is `before` with the done flag of one record with this id flipped,
\* or `before` itself when no record has this id.
IsToggleOf(before, after, id) ==
  LET matches == {i \in 1..Len(before) : before[i].id = id}
  IN  /\ Len(after) = Len(before)
      /\ \A i \in 1..Len(before) :
           after[i].id = before[i].id /\ after[i].text = before[i].text
      /\ DoneChanged(before, after) \subseteq matches
      /\ Cardinality(DoneChanged(before, after)) = IF matches = {} THEN 0 ELSE 1

\* C9: for every id, toggling twice restores every done flag; one toggle flips
\* the done flag of a record with that id and changes nothing else; a toggle
\* with an id no record has changes nothing. Also as handled by the click
\* listener, whose result is what storage holds afterwards.
C9_ToggleInvolution ==
  /\ [](\A d \in DataIds :
          /\ toggleTask(toggleTask(state.tasks, Number(d)), Number(d)) = state.tasks
          /\ IsToggleOf(state.tasks, toggleTask(state.tasks, Number(d)), Number(d)))
  /\ [][lastEvent' = "check"
          => IsToggleOf(state.tasks, state'.tasks, Number(lastArg'))]_vars
  /\ [](lastEvent = "check" => PersistedTasks(storage) = state.tasks)

\* A checkbox click found its record and marked it done.
C9_Witness ==
  /\ lastEvent = "check"
  /\ \E i \in 1..Len(state.tasks) :
       state.tasks[i].id = Number(lastArg) /\ state.tasks[i].done

\* C10: a delete with an id that no record has leaves the task list as it
\* was in memory, and as persisted: before and after it the list read back
\* from storage is the list in memory.
C10_DeleteMissNoOp ==
  /\ [][(lastEvent' = "delete"
           /\ ~\E i \in 1..Len(state.tasks) : state.tasks[i].id = Number(lastArg'))
          => state'.tasks = state.tasks]_vars
  /\ [](PersistedTasks(storage) = state.tasks)

\* A delete was handled for an id later than any id handed out, on a full list.
C10_Witness ==
  /\ lastEvent = "delete"
  /\ Number(lastArg) > now
  /\ Len(state.tasks) = MaxTasks

(* ----------------------------------------------------------------------- *)
(* Persistence properties                                                  *)
(* ----------------------------------------------------------------------- *)

\* C11: after any sequence of add, toggle and delete operations the stored
\* item is the serialisation of the state in memory, and a reload, which runs
\* loadState on the stored item, leaves the task list as it was before it: the
\* same records in the same order.
C11_PersistenceRoundTrip ==
  /\ [](storage.present => storage = saveState(state))
  /\ [][lastEvent' = "load"
          => /\ fatal' = "none"
             /\ Len(state'.tasks) = Len(state.tasks)
             /\ \A i \in 1..Len(state.tasks) : state'.tasks[i] = state.tasks[i]]_vars

\* A reload read back a full list with a toggled record and a record whose text
\* needs escaping.
C11_Witness ==
  /\ lastEvent = "load"
  /\ storage.present
  /\ Len(state.tasks) = MaxTasks
  /\ \E i \in 1..Len(state.tasks) : state.tasks[i].done
  /\ \E i \in 1..Len(state.tasks) : \E j \in 1..Len(state.tasks[i].text) :
       state.tasks[i].text[j] = "\""

\* The stored item cannot be parsed as JSON.
Unparseable(stor) == stor.present /\ ~JSONparse(stor.value).ok

\* C12: when the storage key is missing or its content cannot be parsed as
\* JSON, loading does not throw and yields the default state with an empty
\* task list; and no stored content leaves the page with an uncaught exception
\* of its DOMContentLoaded listener.
C12_LoadFailsSoft ==
  /\ fatal = "none"
  /\ (lastEvent = "load" /\ (~storage.present \/ Unparseable(storage)))
       => (state = DEFAULT_STATE /\ state.tasks = <<>>)

(* ----------------------------------------------------------------------- *)
(* Clock and greeting properties                                           *)
(* ----------------------------------------------------------------------- *)

\* The local hour #clock shows.
ShownHour == Number(SubSeq(clockEl, 1, 2))

\* C13: after every clock tick, for the local hour h in 0..23 that the tick
\* read, #greeting shows "Good morning" for 5 <= h < 12, "Good afternoon" for
\* 12 <= h < 17, "Good evening" for 17 <= h < 21 and "Good night" for every
\* other hour; h = 4 and h = 21 give "Good night", h = 5 gives "Good morning".
C13_GreetingBands ==
  /\ ShownHour \in 0..23
  /\ ShownHour \in {5, 6, 7, 8, 9, 10, 11} => greetingEl = "Good morning"
  /\ ShownHour \in {12, 13, 14, 15, 16} => greetingEl = "Good afternoon"
  /\ ShownHour \in {17, 18, 19, 20} => greetingEl = "Good evening"
  /\ ShownHour \in {0, 1, 2, 3, 4, 21, 22, 23} => greetingEl = "Good night"

\* A clock tick read five in the morning.
C13_Witness ==
  /\ lastEvent = "clock"
  /\ ShownHour = 5
  /\ greetingEl = "Good morning"

(* ----------------------------------------------------------------------- *)
(* Rendering properties                                                    *)
(* ----------------------------------------------------------------------- *)

\* The placeholder rows and the task rows of #task-list, by position.
PlaceholderRows == {i \in 1..Len(taskListEl) : taskListEl[i].className = "task-list__empty"}

TaskRows == {i \in 1..Len(taskListEl) : taskListEl[i].className # "task-list__empty"}

\* C14: whenever the task list is empty, #task-list holds exactly one
\* placeholder row and no task row; whenever it is not, #task-list holds no
\* placeholder row and exactly one task row per record, in list order: the
\* i-th row carries the id, the text and the done flag of the i-th record.
C14_RenderedRows ==
  /\ state.tasks = <<>> => (Cardinality(PlaceholderRows) = 1 /\ TaskRows = {})
  /\ state.tasks # <<>>
       => /\ PlaceholderRows = {}
          /\ Len(taskListEl) = Len(state.tasks)
          /\ \A i \in 1..Len(state.tasks) :
               /\ Number(taskListEl[i].dataId) = state.tasks[i].id
               /\ taskListEl[i].label = state.tasks[i].text
               /\ taskListEl[i].checked = state.tasks[i].done
               /\ (taskListEl[i].className = "task-item task-item--done") = state.tasks[i].done

\* A toggle re-rendered a full list: one row per record, a done one among them.
C14_Witness ==
  /\ lastEvent = "check"
  /\ Len(state.tasks) = MaxTasks
  /\ Len(taskListEl) = MaxTasks
  /\ \E i \in 1..Len(taskListEl) : taskListEl[i].checked

(* ----------------------------------------------------------------------- *)
(* Focus timer: schedule and range                                         *)
(* ----------------------------------------------------------------------- *)

\* C15: under any interleaving of Start, Pause, Reset and tick events at most
\* one recurring decrement schedule is active, and one is active only while
\* the timer is running; after Pause, Reset or natural completion none is
\* active; remaining is decremented only by the tick of the one schedule of a
\* running timer, by one, so never after a Reset until the next Start.
C15_ScheduleDiscipline ==
  /\ [](/\ Cardinality(intervals) <= 1
        /\ intervals # {} => running
        /\ lastEvent \in {"pause", "reset"} => intervals = {}
        /\ Finished => intervals = {})
  /\ [][remaining' < remaining
          => /\ lastEvent' = "tick"
             /\ running
             /\ intervals = {intervalId}
             /\ remaining' = remaining - 1]_vars
  /\ [][(lastEvent = "reset" /\ lastEvent' # "start") => remaining' = remaining]_vars

\* A Pause cancelled the schedule of the last Start the model allows, mid-countdown.
C15_Witness ==
  /\ lastEvent = "pause"
  /\ handles = MaxStarts
  /\ intervals = {}
  /\ ~running
  /\ remaining < POMODORO_SECONDS

\* C16: remaining is an integer between 0 and 1500 in every reachable state; a
\* tick never takes it below 0, and only Reset increases it.
C16_RemainingRange ==
  /\ [](remaining \in 0..POMODORO_SECONDS /\ POMODORO_SECONDS = 1500)
  /\ [][lastEvent' = "tick" => (remaining' >= 0 /\ remaining' <= remaining)]_vars
  /\ [][remaining' > remaining => lastEvent' = "reset"]_vars

\* A tick ran with remaining at 0 and left it there.
C16_Witness ==
  /\ lastEvent = "tick"
  /\ remaining = 0
  /\ ~running
  /\ runTicks = POMODORO_SECONDS + 1

(* ----------------------------------------------------------------------- *)
(* XP and level properties                                                 *)
(* ----------------------------------------------------------------------- *)

\* The highest level, counted from 1, whose threshold is at most xp.
HighestLevel(xp) ==
  LET thresholds == <<0, 100, 250, 450, 700>>
      reached == {l \in 1..5 : thresholds[l] <= xp}
  IN  CHOOSE l \in reached : \A m \in reached : m <= l

\* The level member of the stored item.
StoredLevel(stor) == Get(JSONparse(stor.value).v, KeyLevel).n

\* C17: after every load and after every roadmap check/uncheck event the level
\* in memory is the highest level, between 1 and 5, whose threshold in
\* [0, 100, 250, 450, 700] is at most xp, whatever level value was stored.
C17_DerivedLevel ==
  (fatal = "none" /\ lastEvent \in {"load", "roadmap"})
    => /\ state.level \in 1..5
       /\ state.level = HighestLevel(state.xp)
       /\ state.level = computeLevel(state.xp)

\* A load found a stored level of 1 with 700 XP, and the level in memory is 5.
C17_Witness ==
  /\ lastEvent = "load"
  /\ fatal = "none"
  /\ storage.present
  /\ state.xp = 700
  /\ state.level = 5
  /\ StoredLevel(storage) = 1

\* The sum of xpReward over the tasks of the sequence that are done.
RECURSIVE SumDone(_)
SumDone(tasks) ==
  IF tasks = <<>> THEN 0
  ELSE (IF Head(tasks).done THEN Head(tasks).xpReward ELSE 0) + SumDone(Tail(tasks))

\* The sum of xpReward over the roadmap tasks marked done.
RECURSIVE DoneXp(_)
DoneXp(roadmap) ==
  IF roadmap = <<>> THEN 0
  ELSE SumDone(Head(roadmap).tasks) + DoneXp(Tail(roadmap))

\* The checkbox with these attributes belongs to a roadmap task whose done
\* flag has the given value.
TargetHasDone(roadmap, target, value) ==
  \E c \in 1..Len(roadmap) : \E k \in 1..Len(roadmap[c].tasks) :
    /\ roadmap[c].id = Number(target[1])
    /\ roadmap[c].tasks[k].id = Number(target[2])
    /\ roadmap[c].tasks[k].done = value

\* C19: from the default state (xp = 0, no roadmap task done) and after any
\* sequence of roadmap check/uncheck events, xp is the sum of xpReward over the
\* roadmap tasks marked done and is not negative; an event whose checked value
\* is the done flag its task already has changes neither xp nor a done flag.
C19_XpAccounting ==
  /\ [](state.xp = DoneXp(state.roadmap) /\ state.xp >= 0)
  /\ [][\A target \in RoadmapTargets, isChecked \in BOOLEAN :
          (/\ lastEvent' = "roadmap"
           /\ lastArg' = RoadmapArg(target, isChecked)
           /\ TargetHasDone(state.roadmap, target, isChecked))
          => (state'.xp = state.xp /\ state'.roadmap = state.roadmap)]_vars

\* Roadmap events have checked every task: xp is the sum of all six rewards.
C19_Witness ==
  /\ lastEvent = "roadmap"
  /\ \A c \in 1..Len(state.roadmap) : \A k \in 1..Len(state.roadmap[c].tasks) :
       state.roadmap[c].tasks[k].done
  /\ state.xp = 50 + 50 + 75 + 75 + 100 + 100

(* ----------------------------------------------------------------------- *)
(* Component independence                                                  *)
(* ----------------------------------------------------------------------- *)

\* C18: the timer events (Start, Pause, Reset, timer tick) and the clock ticks
\* leave the task list, the XP, level and roadmap state and the stored item
\* unchanged; the task-store operations (add, toggle, delete) leave the
\* timer's remaining seconds, running flag and active schedule unchanged.
C18_ComponentIndependence ==
  /\ [][lastEvent' \in {"start", "pause", "reset", "tick", "clock"}
          => /\ state'.tasks = state.tasks
             /\ state'.xp = state.xp
             /\ state'.level = state.level
             /\ state'.roadmap = state.roadmap
             /\ storage' = storage]_vars
  /\ [][lastEvent' \in {"submit", "check", "delete"}
          => /\ remaining' = remaining
             /\ running' = running
             /\ intervals' = intervals
             /\ intervalId' = intervalId]_vars

\* A task was added while the timer was running mid-countdown, with XP earned
\* and an item stored.
C18_Witness ==
  /\ lastEvent = "submit"
  /\ state.tasks # <<>>
  /\ running
  /\ intervals # {}
  /\ remaining < POMODORO_SECONDS
  /\ state.xp > 0
  /\ greetingEl = "Good night"

====
